---- MODULE Spec2Model ----
(***************************************************************************)
(* Model of the radar distance pipeline of Sensor_Comparison_Tool:        *)
(*   example_basic_service_lookup_table.c  acc_service,                    *)
(*       do_sensor_calibration_and_prepare, run_simple_threshold_algo,     *)
(*       apply_distance_correction                                         *)
(*   example_lookup_table.h                getNearestDistance              *)
(*                                                                         *)
(* Units.  Lengths are carried in hundredths of a millimetre (1 m =        *)
(* 100000 units), so that the generated table (10.50f, 20.78f, ...) is     *)
(* integral.  The C code computes in binary32; the model computes the same *)
(* expressions over exact rationals <<num, den>> (den > 0), i.e. it leaves *)
(* out binary32 rounding and nothing else.  Integer conversions of the C   *)
(* code (uint16_t, uint32_t) keep their width.                             *)
(***************************************************************************)
EXTENDS Integers, Sequences, FiniteSets, TLC

VARIABLES
    print_data_config, \* the PrintDataConfig acc_service is called with
    pc,              \* position of acc_service
    cleaned,         \* cleanup() has run
    cal_pc,          \* position inside do_sensor_calibration_and_prepare
    i,               \* its loop counter
    status,          \* its local 'status'
    cal_complete,    \* its local 'cal_complete'
    polls,           \* calibrate calls of the current attempt that reported "not complete"
    cal_log,         \* primitives called by the current/last execution of the routine, in order
    last_cal,        \* most recent call of the routine: "none", "running", "success", "failure"
    lastHeldValues,  \* FIFOBuffer of acc_service
    distance,        \* 'float distance' of acc_service
    proc_data,       \* 'ProcessedData proc_data' of acc_service
    sent,            \* payload of the two CAN messages last handed to MX_FDCAN1_Send
    cyc,             \* what the current main-loop cycle has done so far
    algo_in,         \* arguments of a stand-alone call of run_simple_threshold_algo
    algo_out,        \* its outcome
    lk_in,           \* argument of a stand-alone table query
    lk_out           \* its outcome

vars == <<print_data_config, pc, cleaned, cal_pc, i, status, cal_complete, polls, cal_log, last_cal,
          lastHeldValues, distance, proc_data, sent, cyc,
          algo_in, algo_out, lk_in, lk_out>>

calVars  == <<cal_pc, i, status, cal_complete, polls, cal_log>>
pipeVars == <<lastHeldValues, distance, proc_data, sent>>
pureVars == <<algo_in, algo_out, lk_in, lk_out>>

(***************************************************************************)
(* Bounds of the model.                                                    *)
(***************************************************************************)
\* calibrate calls per attempt that may answer "succeeded, not complete"
MaxPolls == 2

(***************************************************************************)
(* Program constants.                                                      *)
(***************************************************************************)
calibration_retries == 1
UINT16 == 65536
\* hundredths of a millimetre per metre, per millimetre and per unit of the
\* value returned by run_simple_threshold_algo (selected * 10000)
UNITS_PER_M == 100000
UNITS_PER_MM == 100
UNITS_PER_OUT == 10
\* 0.0025 m
RF_BASE_STEP == 250

(***************************************************************************)
(* binary32 values as exact rationals <<num, den>>, den >= 0, in lowest    *)
(* terms.  den = 0 carries the IEEE specials a division by zero produces:  *)
(* <<1,0>> = +inf, <<-1,0>> = -inf, <<0,0>> = NaN.                         *)
(***************************************************************************)
Abs(x) == IF x < 0 THEN -x ELSE x
Sign(x) == IF x < 0 THEN -1 ELSE IF x > 0 THEN 1 ELSE 0

RECURSIVE Gcd(_, _)
Gcd(a, b) == IF b = 0 THEN a ELSE Gcd(b, a % b)

Norm(n, d) ==
    IF d = 0 THEN <<Sign(n), 0>>
    ELSE LET g == Gcd(Abs(n), Abs(d))
             s == Sign(d)
         IN  <<(s * n) \div g, (s * d) \div g>>

R(x) == <<x, 1>>
NaN == <<0, 0>>
IsNaN(a) == a = NaN
IsFinite(a) == a[2] # 0
RAdd(a, b) ==
    IF IsNaN(a) \/ IsNaN(b) THEN NaN
    ELSE IF a[2] = 0 /\ b[2] = 0 THEN (IF a = b THEN a ELSE NaN)
    ELSE Norm(a[1] * b[2] + b[1] * a[2], a[2] * b[2])
RNeg(a) == <<-a[1], a[2]>>
RSub(a, b) == RAdd(a, RNeg(b))
RMul(a, b) == IF IsNaN(a) \/ IsNaN(b) THEN NaN ELSE Norm(a[1] * b[1], a[2] * b[2])
\* x / 0 is sign(x) * inf (the zero of y - y is +0), 0 / 0 is NaN
RDiv(a, b) ==
    IF IsNaN(a) \/ IsNaN(b) THEN NaN
    ELSE LET s == IF b[1] < 0 THEN -1 ELSE 1
         IN  Norm(s * a[1] * b[2], s * a[2] * b[1])
\* IEEE comparisons: every comparison with NaN is false
RLt(a, b) ==
    /\ ~IsNaN(a) /\ ~IsNaN(b) /\ a # b
    /\ IF a[2] = 0 /\ b[2] = 0 THEN a[1] < b[1] ELSE a[1] * b[2] < b[1] * a[2]
REq(a, b) == ~IsNaN(a) /\ ~IsNaN(b) /\ a = b
RLe(a, b) == RLt(a, b) \/ REq(a, b)
RGt(a, b) == RLt(b, a)
RGe(a, b) == RLe(b, a)
\* truncation toward zero of a finite value
Trunc(a) == IF a[1] >= 0 THEN a[1] \div a[2] ELSE -((-a[1]) \div a[2])

(***************************************************************************)
(* example_lookup_table.h: the generated position -> distance table.       *)
(***************************************************************************)
LOOKUP_TABLE_SIZE == 5
positions == <<1050, 2075, 3025, 4000, 5015>>
distances == <<1045, 2078, 3022, 4003, 5012>>
\* -1.0f (millimetres), the "not found" value
NOT_FOUND == R(-UNITS_PER_MM)

\* y1 + (y2 - y1) * (position - x1) / (x2 - x1)
Interpolate(position, x1, y1, x2, y2) ==
    RAdd(R(y1), RDiv(RMul(R(y2 - y1), RSub(position, R(x1))), R(x2 - x1)))

\* the entry the interpolation loop stops at: the first i with
\* positions[i] < position < positions[i + 1]
Bracketing_wrong(position) ==
    {k \in 1..(LOOKUP_TABLE_SIZE - 1) : RGt(position, R(positions[k]))}
Bracketing(position) ==
    {k \in 1..(LOOKUP_TABLE_SIZE - 1) :
        RGt(position, R(positions[k])) /\ RLt(position, R(positions[k + 1]))}

Min(S) == CHOOSE x \in S : \A y \in S : x <= y

getNearestDistance_noclamp(position) ==
    LET exact == {k \in 1..LOOKUP_TABLE_SIZE : REq(R(positions[k]), position)}
        br    == Bracketing(position)
    IN  IF exact # {} THEN R(distances[Min(exact)])
        ELSE IF br # {}
        THEN LET k == Min(br)
             IN  Interpolate(position, positions[k], distances[k],
                             positions[k + 1], distances[k + 1])
        ELSE NOT_FOUND
getNearestDistance(position) ==
    IF LOOKUP_TABLE_SIZE = 0 THEN NOT_FOUND
    ELSE LET exact == {k \in 1..LOOKUP_TABLE_SIZE : REq(R(positions[k]), position)}
             br    == Bracketing(position)
         IN  IF exact # {} THEN R(distances[Min(exact)])
             ELSE IF RLe(position, R(positions[1])) THEN R(distances[1])
             ELSE IF RGe(position, R(positions[LOOKUP_TABLE_SIZE]))
                  THEN R(distances[LOOKUP_TABLE_SIZE])
             ELSE IF br # {}
             THEN LET k == Min(br)
                  IN  Interpolate(position, positions[k], distances[k],
                                  positions[k + 1], distances[k + 1])
             ELSE NOT_FOUND

(***************************************************************************)
(* error_correction_table.h is not part of the sources.  Its query is      *)
(* taken from the design text: a raw -> corrected table queried by the     *)
(* same exact-match / clamp / interpolate rule as getNearestDistance.      *)
(***************************************************************************)
ERROR_TABLE_SIZE == 3
error_raw == <<0, 2000, 6000>>
error_corrected == <<400, 2100, 6300>>

applyCorrectedDistance(raw) ==
    LET exact == {k \in 1..ERROR_TABLE_SIZE : REq(R(error_raw[k]), raw)}
        br    == {k \in 1..(ERROR_TABLE_SIZE - 1) :
                     RGt(raw, R(error_raw[k])) /\ RLt(raw, R(error_raw[k + 1]))}
    IN  IF exact # {} THEN R(error_corrected[Min(exact)])
        ELSE IF RLe(raw, R(error_raw[1])) THEN R(error_corrected[1])
        ELSE IF RGe(raw, R(error_raw[ERROR_TABLE_SIZE]))
             THEN R(error_corrected[ERROR_TABLE_SIZE])
        ELSE IF br # {}
        THEN LET k == Min(br)
             IN  Interpolate(raw, error_raw[k], error_corrected[k],
                             error_raw[k + 1], error_corrected[k + 1])
        ELSE NOT_FOUND

(***************************************************************************)
(* A build is the pair of tables the preprocessor sees:                    *)
(*   build.lookup  <=> LOOKUP_TABLE_SIZE is defined                        *)
(*   build.error   <=> ERROR_TABLE_SIZE is defined                         *)
(***************************************************************************)
Builds == [lookup : BOOLEAN, error : BOOLEAN]
BothTables == [lookup |-> TRUE, error |-> TRUE]

lookup_tables_available_always(build) == TRUE
lookup_tables_available(build) == build.lookup /\ LOOKUP_TABLE_SIZE > 0

\* 2.0f millimetres
TOLERANCE_MM == 2

apply_distance_correction_keep(raw_distance_mm, build) ==
    IF ~lookup_tables_available(build) THEN raw_distance_mm
    ELSE applyCorrectedDistance(raw_distance_mm)
apply_distance_correction(raw_distance_mm, build) ==
    IF ~lookup_tables_available(build) THEN raw_distance_mm
    ELSE IF build.error
    THEN LET corrected_distance == applyCorrectedDistance(raw_distance_mm)
             lookup_distance    == getNearestDistance(corrected_distance)
             difference == IF RGt(lookup_distance, corrected_distance)
                           THEN RSub(lookup_distance, corrected_distance)
                           ELSE RSub(corrected_distance, lookup_distance)
         IN  IF RGt(lookup_distance, R(0)) /\ RGt(difference, R(TOLERANCE_MM * UNITS_PER_MM))
             THEN lookup_distance
             ELSE corrected_distance
    ELSE LET lookup_distance == getNearestDistance(raw_distance_mm)
         IN  IF RGt(lookup_distance, R(0)) THEN lookup_distance ELSE raw_distance_mm

(***************************************************************************)
(* run_simple_threshold_algo                                               *)
(*                                                                         *)
(* A frame is a sequence of samples <<real, imag>>; data[k + 1] is the C   *)
(* data[k].  A configuration is a record with the PrintDataConfig fields   *)
(* the code reads: x_intercepts in length units, slopes per metre.         *)
(***************************************************************************)
\* outcomes taken for an integer division by zero and for a float -> uint32_t
\* conversion of a value outside the range of uint32_t
DivByZeroQuotients == {0, 65535}
UndefinedCasts == {0, 65535}
\* a sample read past the end of the frame
StraySamples == {<<0, 0>>, <<255, 0>>}

\* uint16_t divisor = (-15 * temp) + 1600; 'divisor < 0' is never true of a
\* uint16_t and round() of an integer is that integer
Divisor(temp) == ((-15 * temp) + 1600) % UINT16

rf_factor_step(cfg) == RF_BASE_STEP \div cfg.rf_factor

DistanceAt(sweep_index, cfg) ==
    (sweep_index * rf_factor_step(cfg) * cfg.step) + (cfg.start_point * rf_factor_step(cfg))

Line(distance_, slope, y_inter) ==
    RAdd(RDiv(RMul(R(distance_), R(slope)), R(UNITS_PER_M)), R(y_inter))

Threshold(distance_, cfg) ==
    LET x == cfg.x_intercepts
    IN  IF distance_ >= x[1] /\ distance_ <= x[2]
        THEN Line(distance_, cfg.line1_slope, cfg.y_inter_line1)
        ELSE IF distance_ > x[2] /\ distance_ <= x[3]
        THEN Line(distance_, cfg.line2_slope, cfg.y_inter_line2)
        ELSE IF distance_ > x[3] /\ distance_ <= x[4]
        THEN Line(distance_, cfg.line3_slope, cfg.y_inter_line3)
        ELSE R(0)

\* (real * real + imag * imag) / divisor, in int
Amplitude(sample, divisor, q) ==
    IF divisor = 0 THEN q
    ELSE (sample[1] * sample[1] + sample[2] * sample[2]) \div divisor

Sample(data, k, stray) == IF k <= Len(data) THEN data[k] ELSE stray

\* the amplitudes one call can compute for indices 0 .. n - 1
AmplitudeChoices(data, n, divisor) ==
    {[k \in 1..n |-> Amplitude(Sample(data, k, stray), divisor, q)] :
        stray \in (IF n > Len(data) THEN StraySamples ELSE {<<0, 0>>}),
        q \in (IF divisor = 0 THEN DivByZeroQuotients ELSE {0})}

\* the locals of the function before the loop
InitScan ==
    [sweep_index |-> 0, amplitudes |-> <<>>, distances |-> <<>>, examined |-> {},
     first_threshold_index |-> 0, first_threshold_x |-> 0, first_threshold_y |-> 0,
     first_below_threshold_x |-> 0, first_below_threshold_y |-> 0,
     threshold_crossed |-> R(0), max_amplitude |-> 0, crossed |-> FALSE]

CrossesAt_ge(st, amplitude, threshold) ==
    st.first_threshold_x = 0 /\ RGe(RSub(R(amplitude), threshold), R(0))
\* first_threshold_x == 0 && (amplitude - threshold) > 0
CrossesAt(st, amplitude, threshold) ==
    st.first_threshold_x = 0 /\ RGt(RSub(R(amplitude), threshold), R(0))

\* the for loop over sweep_index, from the state st on
RECURSIVE Scan(_, _, _)
Scan(st, amp, cfg) ==
    IF ~(st.sweep_index < cfg.num_points) THEN st
    ELSE
    LET k == st.sweep_index
        amplitude == amp[k + 1]
        distance_ == DistanceAt(k, cfg)
        threshold == Threshold(distance_, cfg)
        st1 == [st EXCEPT !.examined = @ \cup {k},
                          !.amplitudes = Append(@, amplitude),
                          !.max_amplitude = IF amplitude > @ THEN amplitude ELSE @,
                          !.distances = Append(@, distance_)]
    IN  IF CrossesAt(st1, amplitude, threshold)
        THEN [st1 EXCEPT !.first_threshold_x = distance_,
                         !.first_threshold_y = amplitude,
                         !.first_threshold_index = k,
                         !.threshold_crossed = threshold,
                         !.first_below_threshold_x = IF k > 0 THEN st1.distances[k] ELSE @,
                         !.first_below_threshold_y = IF k > 0 THEN st1.amplitudes[k] ELSE @,
                         !.crossed = TRUE]
        ELSE Scan([st1 EXCEPT !.sweep_index = k + 1], amp, cfg)

\* (uint32_t) of a float
CastU32(v) ==
    IF IsFinite(v) /\ RGt(v, R(-1)) THEN {Trunc(v)} ELSE UndefinedCasts

\* first_below_threshold_x + ((threshold_crossed - first_below_threshold_y)
\*   / (first_threshold_y - first_below_threshold_y))
\*   * (first_threshold_x - first_below_threshold_x)
Selected(st) ==
    RAdd(R(st.first_below_threshold_x),
         RMul(RDiv(RSub(st.threshold_crossed, R(st.first_below_threshold_y)),
                   R(st.first_threshold_y - st.first_below_threshold_y)),
              R(st.first_threshold_x - st.first_below_threshold_x)))

LengthMatches_always(data_length, cfg) == TRUE
\* data_length == num_points * sweeps_per_frame
LengthMatches(data_length, cfg) == data_length = cfg.num_points * cfg.sweeps_per_frame

HasCrossing_flag(st) == st.crossed
\* if (first_threshold_index != 0)
HasCrossing(st) == st.first_threshold_index # 0

Finish_overwrites(st, divisor, pd, build) ==
    LET selected  == IF HasCrossing(st) THEN Selected(st) ELSE R(0)
        corrected == apply_distance_correction(selected, build)
    IN  {[ret |-> IF HasCrossing(st) THEN d ELSE 0,
          valid |-> HasCrossing(st), trapped |-> FALSE, divisor |-> divisor,
          scan |-> st,
          selected |-> IF HasCrossing(st) THEN selected ELSE NaN,
          corrected |-> IF HasCrossing(st) THEN corrected ELSE NaN,
          proc_data |-> [pd EXCEPT
              !.selected_distance = IF HasCrossing(st) THEN d ELSE 0,
              !.divisor = divisor,
              !.first_threshold_x = st.first_threshold_x \div UNITS_PER_OUT,
              !.first_threshold_y = st.first_threshold_y,
              !.max_amplitude = st.max_amplitude]] :
         d \in CastU32(RDiv(corrected, R(UNITS_PER_OUT)))}
\* the result of a call that left the loop in state st
Finish(st, divisor, pd, build) ==
    IF HasCrossing(st)
    THEN LET selected  == Selected(st)
             corrected == apply_distance_correction(selected, build)
         IN  {[ret |-> d, valid |-> TRUE, trapped |-> FALSE, divisor |-> divisor,
               scan |-> st, selected |-> selected, corrected |-> corrected,
               proc_data |-> [pd EXCEPT
                   !.selected_distance = d,
                   !.divisor = divisor,
                   !.first_threshold_x = st.first_threshold_x \div UNITS_PER_OUT,
                   !.first_threshold_y = st.first_threshold_y,
                   !.max_amplitude = st.max_amplitude]] :
              d \in CastU32(RDiv(corrected, R(UNITS_PER_OUT)))}
    ELSE {[ret |-> 0, valid |-> FALSE, trapped |-> FALSE, divisor |-> divisor,
           scan |-> st, selected |-> NaN, corrected |-> NaN, proc_data |-> pd]}

\* uint32_t amplitudes[400]; float distances[400];
ARRAY_CAPACITY == 400

\* the scan read a sample past the frame or used a slot past the arrays
OutOfBounds(st, data) ==
    \E j \in st.examined : j >= Len(data) \/ j >= ARRAY_CAPACITY

run_simple_threshold_algo(data, data_length, cfg, temp, pd, build) ==
    LET divisor == Divisor(temp)
        scans   == {Scan(InitScan, amp, cfg) :
                        amp \in AmplitudeChoices(data, cfg.num_points, divisor)}
    IN  IF LengthMatches(data_length, cfg)
        THEN UNION {Finish(st, divisor, pd, build) : st \in scans}
             \cup (IF (divisor = 0 /\ cfg.num_points > 0)
                      \/ (\E st \in scans : OutOfBounds(st, data))
                   THEN {[ret |-> 0, valid |-> FALSE, trapped |-> TRUE, divisor |-> divisor,
                          scan |-> InitScan, selected |-> NaN, corrected |-> NaN,
                          proc_data |-> pd]}
                   ELSE {})
        ELSE {[ret |-> 0, valid |-> FALSE, trapped |-> FALSE, divisor |-> divisor,
               scan |-> InitScan, selected |-> NaN, corrected |-> NaN, proc_data |-> pd]}

(***************************************************************************)
(* fifo_buff.h is not part of the sources.  FIFOBuffer and its functions   *)
(* are taken from the design text: a fixed-capacity first-in first-out     *)
(* buffer, held here as the sequence of its entries, oldest first.         *)
(***************************************************************************)
BUFFER_SIZE == 3

RECURSIVE SeqSum(_)
SeqSum(q) == IF q = <<>> THEN 0 ELSE Head(q) + SeqSum(Tail(q))

initBuffer == <<>>
isFull(buf) == Len(buf) >= BUFFER_SIZE
dequeue(buf) == IF buf = <<>> THEN buf ELSE Tail(buf)
enqueue(buf, value) == IF isFull(buf) THEN buf ELSE Append(buf, value)
getAverage(buf) == IF buf = <<>> THEN R(0) ELSE RDiv(R(SeqSum(buf)), R(Len(buf)))
\* slot j (1 = oldest) weighs wma_start + wma_factor * (j - 1)
computeWeightedAvg(buf, wma_factor, wma_start) ==
    LET w(j) == wma_start + wma_factor * (j - 1)
        ws   == SeqSum([j \in 1..Len(buf) |-> w(j)])
    IN  IF ws = 0 THEN R(0)
        ELSE RDiv(R(SeqSum([j \in 1..Len(buf) |-> w(j) * buf[j]])), R(ws))

(***************************************************************************)
(* acc_service: the smoothing step of one cycle.                           *)
(***************************************************************************)
PushValue_noevict(buf, value) == enqueue(buf, value)
\* if (isFull(..)) dequeue(..); enqueue(.., distance);
PushValue(buf, value) == enqueue(IF isFull(buf) THEN dequeue(buf) ELSE buf, value)

Aggregate_passthrough(buf, value, cfg) == value
\* uint32_t avg_distance = getAverage / computeWeightedAvg / distance; the
\* entries are conversions of uint32_t values, so the aggregate is >= 0
Aggregate(buf, value, cfg) ==
    IF cfg.avg_type = 1 THEN Trunc(getAverage(buf))
    ELSE IF cfg.avg_type = 2
    THEN Trunc(computeWeightedAvg(buf, cfg.wma_factor, cfg.wma_start))
    ELSE value

(***************************************************************************)
(* Inputs of the model.                                                    *)
(***************************************************************************)
\* points at 10, 20, 30 and 40 mm; thresholds there 40, 30, 30 and 20
BaseConfig ==
    [num_points |-> 4, sweeps_per_frame |-> 1, step |-> 4, start_point |-> 4,
     rf_factor |-> 1, x_intercepts |-> <<0, 2000, 3000, 5000>>,
     line1_slope |-> -1000, y_inter_line1 |-> 50,
     line2_slope |-> 1000, y_inter_line2 |-> 0,
     line3_slope |-> 0, y_inter_line3 |-> 20,
     algo |-> 1, avg_type |-> 1, wma_factor |-> 1, wma_start |-> 1]

ServiceConfigs ==
    {[BaseConfig EXCEPT !.avg_type = t] : t \in {0, 1, 2}}
    \cup {[BaseConfig EXCEPT !.algo = 2]}

\* amplitudes 0 and 50 at 20 degrees (divisor 1300)
ServiceSamples == {<<0, 0>>, <<255, 0>>}
ServiceFrames ==
    {<<a, b, c, d>> : a \in ServiceSamples, b \in ServiceSamples,
                      c \in ServiceSamples, d \in ServiceSamples}
    \cup {<<<<0, 0>>, <<255, 0>>, <<255, 0>>>>}
ServiceTemps == {20, 107}

ProcDataInit ==
    [divisor |-> 0, first_threshold_x |-> 0, first_threshold_y |-> 0,
     max_amplitude |-> 0, temp |-> 0, threshold_crossed |-> 0, selected_distance |-> 0]

CycInit ==
    [calibration_needed |-> FALSE, estimated |-> FALSE, valid |-> FALSE,
     pushed |-> FALSE, sent |-> FALSE]

SentInit ==
    [max_amplitude |-> 0, first_threshold_y |-> 0, avg_distance |-> 0, divisor |-> 0, temp |-> 0]

NoAlgoIn == [used |-> FALSE]
NoAlgoOut == [done |-> FALSE]
NoLkIn == [used |-> FALSE]
NoLkOut == [done |-> FALSE]

ServiceInit ==
    /\ pc = "start"
    /\ cleaned = FALSE
    /\ cal_pc = "idle"
    /\ i = 0
    /\ status = FALSE
    /\ cal_complete = FALSE
    /\ polls = 0
    /\ cal_log = <<>>
    /\ last_cal = "none"
    /\ lastHeldValues = initBuffer
    /\ distance = 0
    /\ proc_data = ProcDataInit
    /\ sent = SentInit
    /\ cyc = CycInit

Init ==
    /\ print_data_config \in ServiceConfigs
    /\ ServiceInit
    /\ algo_in = NoAlgoIn /\ algo_out = NoAlgoOut
    /\ lk_in = NoLkIn /\ lk_out = NoLkOut

(***************************************************************************)
(* do_sensor_calibration_and_prepare, one action per primitive it calls.   *)
(***************************************************************************)
\* the call: bool status = false; bool cal_complete = false; i = 0
EnterCalibration ==
    /\ pc' = "calibrate"
    /\ cal_pc' = "for"
    /\ i' = 0
    /\ status' = FALSE
    /\ cal_complete' = FALSE
    /\ polls' = 0
    /\ cal_log' = <<>>
    /\ last_cal' = "running"

ResetSensor_none == <<>>
\* acc_hal_integration_sensor_disable(SENSOR_ID);
\* acc_hal_integration_sensor_enable(SENSOR_ID);
ResetSensor == <<"disable", "enable">>

NextAttempt_stuck(k) == k
\* i++
NextAttempt(k) == k + 1

LoopContinues_ignoring_status(st, k) == k <= calibration_retries
LoopContinues_noretry(st, k) == ~st /\ (k < calibration_retries)
\* !status && (i <= calibration_retries)
LoopContinues(st, k) == ~st /\ (k <= calibration_retries)

\* the head of the for loop; an iteration starts by disabling and enabling
\* the sensor
CalFor ==
    /\ pc = "calibrate" /\ cal_pc = "for"
    /\ IF LoopContinues(status, i)
       THEN /\ cal_log' = cal_log \o ResetSensor
            /\ cal_pc' = "do"
            /\ polls' = 0
       ELSE /\ cal_pc' = "after"
            /\ UNCHANGED <<cal_log, polls>>
    /\ UNCHANGED <<print_data_config, pc, cleaned, i, status, cal_complete, last_cal, cyc>>
    /\ UNCHANGED pipeVars /\ UNCHANGED pureVars

InnerRepeats_ignoring_status(st, complete) == ~complete
\* status && !cal_complete
InnerRepeats(st, complete) == st /\ ~complete

\* status = acc_sensor_calibrate(sensor, &cal_complete, ...)
CalCalibrate ==
    /\ pc = "calibrate" /\ cal_pc = "do"
    /\ \E ok \in BOOLEAN, complete \in BOOLEAN :
          /\ (ok /\ ~complete) => polls < MaxPolls
          /\ status' = ok
          /\ cal_complete' = complete
          /\ cal_log' = Append(cal_log, IF ~ok THEN "calibrate_fail"
                                        ELSE IF complete THEN "calibrate_done"
                                        ELSE "calibrate_pending")
          /\ IF InnerRepeats(ok, complete)
             THEN /\ cal_pc' = "wait"
                  /\ polls' = polls + 1
                  /\ i' = i
             ELSE \* while (status && !cal_complete) is false: i++
                  /\ cal_pc' = "for"
                  /\ i' = NextAttempt(i)
                  /\ polls' = polls
    /\ UNCHANGED <<print_data_config, pc, cleaned, last_cal, cyc>>
    /\ UNCHANGED pipeVars /\ UNCHANGED pureVars

\* status = acc_hal_integration_wait_for_sensor_interrupt(...)
CalWait ==
    /\ pc = "calibrate" /\ cal_pc = "wait"
    /\ \E ok \in BOOLEAN :
          /\ status' = ok
          /\ cal_log' = Append(cal_log, IF ok THEN "wait_ok" ELSE "wait_timeout")
          /\ IF InnerRepeats(ok, cal_complete)
             THEN cal_pc' = "do" /\ i' = i
             ELSE cal_pc' = "for" /\ i' = NextAttempt(i)
    /\ UNCHANGED <<print_data_config, pc, cleaned, cal_complete, polls, last_cal, cyc>>
    /\ UNCHANGED pipeVars /\ UNCHANGED pureVars

PrepareAfter_always(st) == TRUE
\* if (status)
PrepareAfter(st) == st

\* after the loop: on success disable, enable and acc_sensor_prepare
CalPrepare ==
    /\ pc = "calibrate" /\ cal_pc = "after"
    /\ IF PrepareAfter(status)
       THEN \E ok \in BOOLEAN :
               /\ status' = ok
               /\ cal_log' = cal_log \o ResetSensor
                                      \o <<IF ok THEN "prepare_ok" ELSE "prepare_fail">>
       ELSE UNCHANGED <<status, cal_log>>
    /\ cal_pc' = "return"
    /\ UNCHANGED <<print_data_config, pc, cleaned, i, cal_complete, polls, last_cal, cyc>>
    /\ UNCHANGED pipeVars /\ UNCHANGED pureVars

(***************************************************************************)
(* acc_service                                                             *)
(***************************************************************************)
\* the steps before the first calibration that can fail
StartupSteps ==
    {"acc_rss_hal_register", "acc_config_create", "acc_processing_create",
     "acc_rss_get_buffer_size", "acc_integration_mem_alloc", "acc_sensor_create"}

ExitFailure_nocleanup ==
    /\ pc' = "exit_failure"
    /\ cleaned' = cleaned
\* cleanup(...); return EXIT_FAILURE;
ExitFailure ==
    /\ pc' = "exit_failure"
    /\ cleaned' = TRUE

\* registration, creation of config, processing, buffer and sensor, then the
\* first call of do_sensor_calibration_and_prepare
Startup ==
    /\ pc = "start"
    /\ \/ \E failed \in StartupSteps :
             /\ pc' = "exit_failure"
             \* a failed registration returns without cleanup
             /\ cleaned' = (failed # "acc_rss_hal_register")
             /\ UNCHANGED calVars
             /\ UNCHANGED last_cal
       \/ /\ EnterCalibration
          /\ UNCHANGED cleaned
    /\ UNCHANGED <<print_data_config, cyc>>
    /\ UNCHANGED pipeVars /\ UNCHANGED pureVars

CalibrationSucceeded_always(st) == TRUE
\* if (!do_sensor_calibration_and_prepare(...)) { ... return EXIT_FAILURE; }
CalibrationSucceeded(st) == st

\* the routine returns 'status' to acc_service
CalReturn ==
    /\ pc = "calibrate" /\ cal_pc = "return"
    /\ last_cal' = IF status THEN "success" ELSE "failure"
    /\ cal_pc' = "idle"
    /\ cal_log' = <<>>
    /\ IF CalibrationSucceeded(status)
       THEN pc' = "measure" /\ UNCHANGED cleaned
       ELSE ExitFailure
    /\ UNCHANGED <<print_data_config, i, status, cal_complete, polls, cyc>>
    /\ UNCHANGED pipeVars /\ UNCHANGED pureVars

\* acc_sensor_measure at the top of while (1)
Measure ==
    /\ pc = "measure"
    /\ cyc' = CycInit
    /\ \E ok \in BOOLEAN :
          IF ok THEN pc' = "wait_interrupt" /\ UNCHANGED cleaned ELSE ExitFailure
    /\ UNCHANGED <<print_data_config, last_cal>>
    /\ UNCHANGED calVars /\ UNCHANGED pipeVars /\ UNCHANGED pureVars

\* acc_hal_integration_wait_for_sensor_interrupt
WaitInterrupt ==
    /\ pc = "wait_interrupt"
    /\ \E ok \in BOOLEAN :
          IF ok THEN pc' = "read" /\ UNCHANGED cleaned ELSE ExitFailure
    /\ UNCHANGED <<print_data_config, last_cal, cyc>>
    /\ UNCHANGED calVars /\ UNCHANGED pipeVars /\ UNCHANGED pureVars

\* acc_sensor_read
Read ==
    /\ pc = "read"
    /\ \E ok \in BOOLEAN :
          IF ok THEN pc' = "process" /\ UNCHANGED cleaned ELSE ExitFailure
    /\ UNCHANGED <<print_data_config, last_cal, cyc>>
    /\ UNCHANGED calVars /\ UNCHANGED pipeVars /\ UNCHANGED pureVars

NeedsCalibration_never(calibration_needed) == FALSE
\* if (proc_result.calibration_needed)
NeedsCalibration(calibration_needed) == calibration_needed

\* acc_processing_execute delivers a frame that needs re-calibration
Recalibrate ==
    /\ pc = "process"
    /\ \E calibration_needed \in BOOLEAN :
          /\ NeedsCalibration(calibration_needed)
          /\ cyc' = [cyc EXCEPT !.calibration_needed = calibration_needed]
    /\ EnterCalibration
    /\ UNCHANGED <<print_data_config, cleaned>>
    /\ UNCHANGED pipeVars /\ UNCHANGED pureVars

\* the estimate of the frame: the unchanged 'distance' when algo is not 1
Estimates(frame, temp) ==
    IF print_data_config.algo = 1
    THEN {[ret |-> r.ret, proc_data |-> r.proc_data, valid |-> r.valid,
           trapped |-> r.trapped, estimated |-> TRUE] :
            r \in run_simple_threshold_algo(frame, Len(frame), print_data_config, temp,
                                            proc_data, BothTables)}
    ELSE {[ret |-> distance, proc_data |-> proc_data, valid |-> FALSE,
           trapped |-> FALSE, estimated |-> FALSE]}

\* acc_processing_execute delivers a frame that needs no re-calibration: the
\* estimate, the smoothing and the two CAN messages.  The results of
\* MX_FDCAN1_Send only drive the time stamp and the test LED.
Process ==
    /\ pc = "process"
    /\ \E calibration_needed \in BOOLEAN, frame \in ServiceFrames, temp \in ServiceTemps :
          /\ ~NeedsCalibration(calibration_needed)
          /\ \E r \in Estimates(frame, temp) :
                IF r.trapped
                THEN /\ pc' = "fault"
                     /\ cyc' = [cyc EXCEPT !.calibration_needed = calibration_needed,
                                           !.estimated = TRUE]
                     /\ UNCHANGED pipeVars
                ELSE /\ pc' = "measure"
                     /\ distance' = r.ret
                     /\ proc_data' = r.proc_data
                     /\ lastHeldValues' = PushValue(lastHeldValues, r.ret)
                     /\ sent' = [max_amplitude |-> r.proc_data.max_amplitude,
                                 first_threshold_y |-> r.proc_data.first_threshold_y % UINT16,
                                 avg_distance |-> Aggregate(lastHeldValues', r.ret,
                                                            print_data_config),
                                 divisor |-> r.proc_data.divisor % UINT16,
                                 temp |-> temp]
                     /\ cyc' = [calibration_needed |-> calibration_needed,
                                estimated |-> r.estimated, valid |-> r.valid,
                                pushed |-> TRUE, sent |-> TRUE]
    /\ UNCHANGED <<print_data_config, cleaned, last_cal>>
    /\ UNCHANGED calVars /\ UNCHANGED pureVars

Next ==
    \/ Startup
    \/ CalFor
    \/ CalCalibrate
    \/ CalWait
    \/ CalPrepare
    \/ CalReturn
    \/ Measure
    \/ WaitInterrupt
    \/ Read
    \/ Recalibrate
    \/ Process

Spec == Init /\ [][Next]_vars

(***************************************************************************)
(* run_simple_threshold_algo on its own: one call per behaviour, on        *)
(* arguments drawn from bounded sets.                                      *)
(***************************************************************************)
\* the scenario of the design text: x_intercepts = [0, 10, 20, 30] (metres),
\* one active segment of slope 5 through the origin
ScenarioConfig ==
    [BaseConfig EXCEPT !.x_intercepts = <<0, 10 * UNITS_PER_M, 20 * UNITS_PER_M, 30 * UNITS_PER_M>>,
                       !.line1_slope = 5, !.y_inter_line1 = 0,
                       !.line2_slope = 0, !.y_inter_line2 = 0,
                       !.line3_slope = 0, !.y_inter_line3 = 0]

\* the last one is a configuration of frames of no sweeps
AlgoConfigs ==
    {BaseConfig, ScenarioConfig, [BaseConfig EXCEPT !.sweeps_per_frame = 2],
     [BaseConfig EXCEPT !.sweeps_per_frame = 0]}

\* 107 is the first temperature with -15 * temp + 1600 < 0, 21952 the one
\* that makes the uint16_t divisor 0
AlgoTemps == {0, 20, 106, 107, 21952}

\* samples whose amplitudes at the temperature are 0 and a few tens
\* (20 degrees: 0, 30, 35, 50)
AlgoSamples(temp) ==
    IF temp = 20 THEN {<<0, 0>>, <<198, 0>>, <<214, 0>>, <<255, 0>>}
    ELSE IF temp = 0 THEN {<<0, 0>>, <<283, 0>>}
    ELSE IF temp = 106 THEN {<<0, 0>>, <<24, 5>>}
    ELSE IF temp = 107 THEN {<<0, 0>>, <<1811, 0>>}
    ELSE {<<0, 0>>, <<255, 0>>}

AlgoFrames(temp) ==
    LET S == AlgoSamples(temp)
        z == <<0, 0>>
    IN  {<<a, b, c, d>> : a \in S, b \in S, c \in S, d \in S}
        \cup {<<z, b, c>> : b \in S, c \in S}
        \cup {<<z, b, c, z, z, b, c, z>> : b \in S, c \in S}
        \cup {<<>>}

ProcDataPrev ==
    [divisor |-> 1300, first_threshold_x |-> 200, first_threshold_y |-> 50,
     max_amplitude |-> 50, temp |-> 0, threshold_crossed |-> 0, selected_distance |-> 160]

AlgoInit ==
    /\ print_data_config = BaseConfig
    /\ ServiceInit
    /\ \E t \in AlgoTemps :
          algo_in \in [used : {TRUE}, data : AlgoFrames(t), cfg : AlgoConfigs, temp : {t},
                       pd : {ProcDataInit, ProcDataPrev}, build : Builds]
    /\ algo_out = NoAlgoOut
    /\ lk_in = NoLkIn /\ lk_out = NoLkOut

AlgoCall ==
    /\ algo_in.used /\ ~algo_out.done
    /\ \E r \in run_simple_threshold_algo(algo_in.data, Len(algo_in.data), algo_in.cfg,
                                           algo_in.temp, algo_in.pd, algo_in.build) :
          algo_out' = [done |-> TRUE, r |-> r]
    /\ UNCHANGED <<print_data_config, pc, cleaned, last_cal, cyc, algo_in, lk_in, lk_out>>
    /\ UNCHANGED calVars /\ UNCHANGED pipeVars

AlgoNext == AlgoCall

SpecAlgo == AlgoInit /\ [][AlgoNext]_vars

(***************************************************************************)
(* getNearestDistance on its own.                                          *)
(***************************************************************************)
\* spacing of the query positions (0.25 mm) and the last of them (60 mm)
QueryStep == 25
QueryMax == 6000

LookupQueries ==
    {R(p) : p \in {q \in 0..QueryMax : q % QueryStep = 0}}
    \cup {R(positions[k]) : k \in 1..LOOKUP_TABLE_SIZE}
    \cup {<<3125, 2>>, R(-100), <<1, 0>>, <<-1, 0>>, NaN}

LookupInit ==
    /\ print_data_config = BaseConfig
    /\ ServiceInit
    /\ algo_in = NoAlgoIn /\ algo_out = NoAlgoOut
    /\ lk_in \in [used : {TRUE}, position : LookupQueries]
    /\ lk_out = NoLkOut

LookupCall ==
    /\ lk_in.used /\ ~lk_out.done
    /\ lk_out' = [done |-> TRUE, result |-> getNearestDistance(lk_in.position)]
    /\ UNCHANGED <<print_data_config, pc, cleaned, last_cal, cyc, algo_in, algo_out, lk_in>>
    /\ UNCHANGED calVars /\ UNCHANGED pipeVars

LookupNext == LookupCall

SpecLookup == LookupInit /\ [][LookupNext]_vars

(***************************************************************************)
(* The smoothing step of acc_service on its own: values pushed one after   *)
(* the other into an initially empty buffer.                               *)
(***************************************************************************)
BufferValues == {10, 20, 30, 40}

BufferInit ==
    /\ print_data_config \in ServiceConfigs
    /\ ServiceInit
    /\ algo_in = NoAlgoIn /\ algo_out = NoAlgoOut
    /\ lk_in = NoLkIn /\ lk_out = NoLkOut

BufferPush ==
    /\ \E v \in BufferValues :
          /\ distance' = v
          /\ lastHeldValues' = PushValue(lastHeldValues, v)
          /\ sent' = [sent EXCEPT !.avg_distance =
                                     Aggregate(lastHeldValues', v, print_data_config)]
          /\ cyc' = [cyc EXCEPT !.pushed = TRUE]
    /\ UNCHANGED <<print_data_config, pc, cleaned, last_cal, proc_data>>
    /\ UNCHANGED calVars /\ UNCHANGED pureVars

BufferNext == BufferPush

SpecBuffer == BufferInit /\ [][BufferNext]_vars

(***************************************************************************)
(* Properties.                                                             *)
(***************************************************************************)
Count(log, e) == Cardinality({k \in 1..Len(log) : log[k] = e})
Has(log, e) == Count(log, e) > 0
CalibrateCalls(log) ==
    Count(log, "calibrate_fail") + Count(log, "calibrate_pending") + Count(log, "calibrate_done")
PrepareCalls(log) == Count(log, "prepare_ok") + Count(log, "prepare_fail")
\* every attempt, and the prepare step, starts with one "disable"
Attempts(log) == Count(log, "disable") - PrepareCalls(log)
Returning == pc = "calibrate" /\ cal_pc = "return"

\* C1: a frame is handed to run_simple_threshold_algo only when the most
\* recent call of do_sensor_calibration_and_prepare returned success and the
\* frame is not flagged calibration_needed.
C1_EstimateOnlyCalibrated ==
    cyc.estimated => (last_cal = "success" /\ ~cyc.calibration_needed)

C1_Witness == cyc.estimated /\ cyc.valid /\ pc = "measure"

\* C2: a frame without a valid estimate pushes nothing into the smoothing
\* buffer and leaves the output at the previous smoothed value.
C2_InvalidFrameNotPushed ==
    [][(pc = "process" /\ cyc'.estimated /\ ~cyc'.valid /\ pc' = "measure")
        => (lastHeldValues' = lastHeldValues /\ sent'.avg_distance = sent.avg_distance)]_vars

\* C3: the buffer never holds more than BUFFER_SIZE values, and a cycle that
\* pushes drops the oldest entry exactly when the buffer is full and then
\* appends the new value at the end.
C3_BufferBounded ==
    /\ [](Len(lastHeldValues) <= BUFFER_SIZE)
    /\ [][(pc = "process" /\ cyc'.pushed)
            => lastHeldValues' =
                  Append(IF Len(lastHeldValues) = BUFFER_SIZE
                         THEN Tail(lastHeldValues) ELSE lastHeldValues,
                         distance')]_vars

C3_Witness ==
    /\ Len(lastHeldValues) = BUFFER_SIZE
    /\ lastHeldValues[1] # lastHeldValues[BUFFER_SIZE]
    /\ lastHeldValues[BUFFER_SIZE] = distance
    /\ cyc.pushed

\* C4: with calibration_retries = 1, a call in which no attempt completes
\* calibration returns failure after exactly 2 attempts without calling
\* acc_sensor_prepare; when every acc_sensor_calibrate call fails these are
\* exactly 2 calibrate calls.
C4_TwoFailedAttempts ==
    (Returning /\ ~Has(cal_log, "calibrate_done"))
        => /\ status = FALSE
           /\ Attempts(cal_log) = 2
           /\ PrepareCalls(cal_log) = 0
           /\ (Count(cal_log, "calibrate_fail") = CalibrateCalls(cal_log)
                  => CalibrateCalls(cal_log) = 2)

C4_Witness ==
    /\ Returning
    /\ cal_log = <<"disable", "enable", "calibrate_fail", "disable", "enable", "calibrate_fail">>

\* C5: the routine returns success only if an attempt ended with a calibrate
\* call that succeeded and was complete and the acc_sensor_prepare call after
\* it succeeded; a failed prepare makes it return failure.
C5_SuccessNeedsPrepare ==
    Returning
        => /\ status = TRUE =>
                 /\ Len(cal_log) >= 4
                 /\ cal_log[Len(cal_log)] = "prepare_ok"
                 /\ cal_log[Len(cal_log) - 3] = "calibrate_done"
           /\ Has(cal_log, "prepare_fail") => status = FALSE
           /\ PrepareCalls(cal_log) <= 1

C5_Witness ==
    /\ Returning /\ status = FALSE
    /\ Has(cal_log, "calibrate_done") /\ Has(cal_log, "prepare_fail")

\* C6: the divisor is -15 * temperature + 1600 when that is at least 1 and 1
\* otherwise, hence never below 1.
C6_DivisorClamped ==
    algo_out.done
        => LET v == (-15 * algo_in.temp) + 1600
           IN  /\ algo_out.r.divisor = (IF v >= 1 THEN v ELSE 1)
               /\ algo_out.r.divisor >= 1

\* C7: a frame whose length differs from num_points * sweeps_per_frame gets
\* the no-detection result, and no sample of it is examined.
C7_MalformedLengthRejected ==
    (algo_out.done /\ Len(algo_in.data) # algo_in.cfg.num_points * algo_in.cfg.sweeps_per_frame)
        => /\ algo_out.r.ret = 0
           /\ ~algo_out.r.valid
           /\ ~algo_out.r.trapped
           /\ algo_out.r.scan.examined = {}
           /\ algo_out.r.scan.amplitudes = <<>>
           /\ algo_out.r.scan.distances = <<>>
           /\ ~algo_out.r.scan.crossed
           /\ algo_out.r.proc_data = algo_in.pd

\* a malformed frame that holds a crossing at index 1
C7_Witness ==
    /\ algo_out.done
    /\ algo_in.cfg = BaseConfig /\ algo_in.temp = 20
    /\ Len(algo_in.data) = 3
    /\ algo_in.data[1] = <<0, 0>> /\ algo_in.data[2] = <<255, 0>>
    /\ algo_out.r.ret = 0

\* C8: with the first crossing at an index i >= 1, the interpolated distance
\* lies strictly between distance[i - 1] and distance[i].
C8_InterpolationBetween ==
    (algo_out.done /\ algo_out.r.valid /\ algo_out.r.scan.first_threshold_index >= 1)
        => LET st == algo_out.r.scan
               k  == st.first_threshold_index
           IN  /\ RLt(R(st.distances[k]), algo_out.r.selected)
               /\ RLt(algo_out.r.selected, R(st.distances[k + 1]))

\* C9 (amended): in simple-average mode the value output after a push is the
\* arithmetic mean of the entries then held, truncated to an integer; with
\* capacity 3, <<10, 20, 30>> gives 20 and <<20, 30, 40>> gives 30.
C9_OutputIsTruncatedMean ==
    (cyc.pushed /\ print_data_config.avg_type = 1)
        => /\ lastHeldValues # <<>>
           /\ sent.avg_distance * Len(lastHeldValues) <= SeqSum(lastHeldValues)
           /\ SeqSum(lastHeldValues) < (sent.avg_distance + 1) * Len(lastHeldValues)
           /\ (BUFFER_SIZE = 3 /\ lastHeldValues = <<10, 20, 30>>) => sent.avg_distance = 20
           /\ (BUFFER_SIZE = 3 /\ lastHeldValues = <<20, 30, 40>>) => sent.avg_distance = 30

C9_Witness ==
    /\ cyc.pushed /\ print_data_config.avg_type = 1
    /\ lastHeldValues = <<20, 30, 40>> /\ sent.avg_distance = 30

\* C9 as stated: the output is the arithmetic mean itself.
C9_OutputIsMean ==
    (cyc.pushed /\ print_data_config.avg_type = 1)
        => sent.avg_distance * Len(lastHeldValues) = SeqSum(lastHeldValues)

\* C10: getNearestDistance returns the paired distance on an exact match, the
\* first distance below the first position, the last distance above the last
\* position, and otherwise the point of the line through the two bracketing
\* entries; 15.625 mm gives 15.615 mm and 5.0 mm gives 10.45 mm.
C10_NearestDistance ==
    (lk_out.done /\ ~IsNaN(lk_in.position))
        => LET p == lk_in.position
               r == lk_out.result
           IN  /\ \A k \in 1..LOOKUP_TABLE_SIZE :
                     p = R(positions[k]) => r = R(distances[k])
               /\ RLt(p, R(positions[1])) => r = R(distances[1])
               /\ RGt(p, R(positions[LOOKUP_TABLE_SIZE])) => r = R(distances[LOOKUP_TABLE_SIZE])
               /\ \A k \in 1..(LOOKUP_TABLE_SIZE - 1) :
                     (RLt(R(positions[k]), p) /\ RLt(p, R(positions[k + 1])))
                        => RMul(RSub(r, R(distances[k])), R(positions[k + 1] - positions[k]))
                             = RMul(R(distances[k + 1] - distances[k]), RSub(p, R(positions[k])))
               /\ p = <<3125, 2>> => r = <<3123, 2>>
               /\ p = R(500) => r = R(1045)

C10_Witness ==
    /\ lk_out.done
    /\ lk_in.position = <<3125, 2>>
    /\ lk_out.result = <<3123, 2>>

(***************************************************************************)
(* apply_distance_correction on its own: one raw distance, in every build  *)
(* configuration of the two tables.                                        *)
(***************************************************************************)
CorrInit ==
    /\ print_data_config = BaseConfig
    /\ ServiceInit
    /\ algo_in = NoAlgoIn /\ algo_out = NoAlgoOut
    /\ lk_in \in [used : {TRUE}, position : LookupQueries, build : Builds]
    /\ lk_out = NoLkOut

CorrCall ==
    /\ lk_in.used /\ ~lk_out.done
    /\ lk_out' = [done |-> TRUE,
                  result |-> apply_distance_correction(lk_in.position, lk_in.build)]
    /\ UNCHANGED <<print_data_config, pc, cleaned, last_cal, cyc, algo_in, algo_out, lk_in>>
    /\ UNCHANGED calVars /\ UNCHANGED pipeVars

CorrNext == CorrCall

SpecCorr == CorrInit /\ [][CorrNext]_vars

\* C11: in a build without the coarse lookup table (lookup_tables_available
\* is false), apply_distance_correction returns the raw distance it was
\* given, whatever that distance is and whether or not an error table exists.
C11_NoTablePassThrough ==
    (lk_out.done /\ ~lk_in.build.lookup) => lk_out.result = lk_in.position

C11_Witness ==
    /\ lk_out.done /\ ~lk_in.build.lookup
    /\ lk_in.position = R(1050)
    /\ lk_out.result = R(1050)

\* the error-corrected value of the query and the coarse result for it
CorrectedOf(raw) == applyCorrectedDistance(raw)
CoarseOf(raw) == getNearestDistance(CorrectedOf(raw))
FartherThan(a, b, mm) ==
    \/ RGt(RSub(a, b), R(mm * UNITS_PER_MM))
    \/ RGt(RSub(b, a), R(mm * UNITS_PER_MM))

\* C12: in a build with both tables, apply_distance_correction returns the
\* coarse-table result when it lies more than 2 mm above or below the
\* error-corrected value, and the error-corrected value otherwise.
C12_CoarsePreferredBeyondTolerance ==
    (lk_out.done /\ lk_in.build = BothTables) =>
        IF FartherThan(CoarseOf(lk_in.position), CorrectedOf(lk_in.position), 2)
        THEN lk_out.result = CoarseOf(lk_in.position)
        ELSE lk_out.result = CorrectedOf(lk_in.position)

\* a query whose coarse result is preferred, 6.45 mm away from the corrected value
C12_Witness ==
    /\ lk_out.done /\ lk_in.build = BothTables
    /\ lk_in.position = R(0)
    /\ CorrectedOf(lk_in.position) = R(400)
    /\ lk_out.result = R(1045)

\* a query whose corrected value is kept, the coarse result being within 2 mm
C12_WitnessWithin ==
    /\ lk_out.done /\ lk_in.build = BothTables
    /\ lk_in.position = R(1000)
    /\ ~FartherThan(CoarseOf(lk_in.position), CorrectedOf(lk_in.position), 2)
    /\ lk_out.result = CorrectedOf(lk_in.position)

CalibrateEvents == {"calibrate_fail", "calibrate_pending", "calibrate_done"}
PrepareEvents == {"prepare_ok", "prepare_fail"}
WaitEvents == {"wait_ok", "wait_timeout"}
\* the events that end an attempt as a failure
FailureEvents == {"calibrate_fail", "wait_timeout"}
\* position k of the log comes right after a disable followed by an enable
AfterReset(log, k) == k >= 3 /\ log[k - 2] = "disable" /\ log[k - 1] = "enable"
\* the number of attempts started up to position k of the log
AttemptsUpTo(log, k) ==
    Cardinality({j \in 1..k : log[j] = "disable"})
    - Cardinality({j \in 1..k : log[j] \in PrepareEvents})

\* C13: the first calibrate call of every attempt comes right after a
\* disable followed by an enable (later calibrate calls of the attempt come
\* after a successful wait), an attempt that follows a failed one starts
\* with disable, and prepare is called only right after one further disable
\* and enable that follow the completed calibration.
C13_ResetBrackets ==
    /\ (cal_log # <<>>) => cal_log[1] = "disable"
    /\ \A k \in 1..Len(cal_log) :
          /\ cal_log[k] \in CalibrateEvents =>
                \/ AfterReset(cal_log, k)
                \/ (k >= 2 /\ cal_log[k - 1] = "wait_ok")
          /\ cal_log[k] \in PrepareEvents =>
                AfterReset(cal_log, k) /\ k >= 4 /\ cal_log[k - 3] = "calibrate_done"
          /\ (cal_log[k] = "disable" /\ k < Len(cal_log)) => cal_log[k + 1] = "enable"
          /\ cal_log[k] = "enable" => (k >= 2 /\ cal_log[k - 1] = "disable")
          /\ (cal_log[k] \in FailureEvents /\ k < Len(cal_log)) => cal_log[k + 1] = "disable"

\* a run of two attempts followed by the prepare step, three resets in all
C13_Witness ==
    /\ Returning
    /\ Count(cal_log, "disable") = 3 /\ Count(cal_log, "enable") = 3
    /\ Has(cal_log, "prepare_ok") /\ Has(cal_log, "wait_ok")

\* the first attempt ended with a failed calibrate call or a wait timeout
FirstAttemptFailed(log) ==
    \E k \in 1..Len(log) : log[k] \in FailureEvents /\ AttemptsUpTo(log, k) = 1

\* C14: with calibration_retries = 1 a failed first attempt is followed by a
\* second one, no calibrate call is made after one that completed the
\* calibration, and there are never more than calibration_retries + 1 attempts.
C14_RetryOnce ==
    /\ Attempts(cal_log) <= calibration_retries + 1
    /\ \A k \in 1..Len(cal_log) :
          cal_log[k] = "calibrate_done" =>
             \A j \in (k + 1)..Len(cal_log) :
                cal_log[j] \notin CalibrateEvents /\ cal_log[j] \notin WaitEvents
    /\ (Returning /\ FirstAttemptFailed(cal_log)) => Attempts(cal_log) = 2
    /\ (Returning /\ Attempts(cal_log) = 2) => FirstAttemptFailed(cal_log)

\* a wait timeout in the first attempt, a completed calibration in the second
C14_Witness ==
    /\ Returning
    /\ FirstAttemptFailed(cal_log) /\ Has(cal_log, "wait_timeout")
    /\ Attempts(cal_log) = 2
    /\ Has(cal_log, "calibrate_done")

\* C15: a calibrate call that succeeds without completing is followed by
\* exactly one wait for the interrupt and only then by the next calibrate
\* call; a wait that times out ends the attempt as a failed calibrate call
\* does: no further calibrate call in that attempt, and a failed result if
\* it was the last attempt.
C15_OneWaitPerPoll ==
    /\ \A k \in 1..Len(cal_log) :
          /\ (cal_log[k] = "calibrate_pending" /\ k < Len(cal_log)) =>
                cal_log[k + 1] \in WaitEvents
          /\ cal_log[k] \in WaitEvents => (k >= 2 /\ cal_log[k - 1] = "calibrate_pending")
          /\ (cal_log[k] = "wait_ok" /\ k < Len(cal_log)) => cal_log[k + 1] \in CalibrateEvents
          /\ (cal_log[k] \in FailureEvents /\ k < Len(cal_log)) =>
                /\ cal_log[k + 1] = "disable"
                /\ AttemptsUpTo(cal_log, k + 1) = AttemptsUpTo(cal_log, k) + 1
    /\ (pc = "calibrate" /\ cal_log # <<>>) =>
          /\ cal_log[Len(cal_log)] = "calibrate_pending" => cal_pc = "wait"
          /\ cal_log[Len(cal_log)] = "wait_ok" => cal_pc = "do"
          /\ cal_log[Len(cal_log)] \in FailureEvents => (cal_pc # "do" /\ cal_pc # "wait" /\ ~status)

\* a timeout in the first attempt, a poll answered by the interrupt in the second
C15_Witness ==
    /\ Returning
    /\ \E k \in 2..Len(cal_log) :
          /\ cal_log[k - 1] = "calibrate_pending" /\ cal_log[k] = "wait_timeout"
          /\ k < Len(cal_log) /\ cal_log[k + 1] = "disable"
    /\ \E k \in 2..Len(cal_log) :
          /\ cal_log[k - 1] = "calibrate_pending" /\ cal_log[k] = "wait_ok"
          /\ k < Len(cal_log) /\ cal_log[k + 1] = "calibrate_done"

(***************************************************************************)
(* acc_service under the assumption that the program keeps running: every  *)
(* call of a sensor or HAL primitive made by the calibration routine       *)
(* returns, so each step of the routine that is ready is eventually taken. *)
(* The bound MaxPolls in CalCalibrate ends the run of 'succeeded but not   *)
(* complete' answers within an attempt.                                    *)
(***************************************************************************)
CalStep == CalFor \/ CalCalibrate \/ CalWait \/ CalPrepare \/ CalReturn

SpecFair == Init /\ [][Next]_vars /\ WF_vars(CalStep)

\* a measure of the work the routine still has ahead of it: attempts left,
\* then polls left in the attempt, then the position in the iteration
AttemptSpan == 2 * MaxPolls + 4
CalRank ==
    CASE cal_pc = "for"    -> (calibration_retries + 2 - i) * AttemptSpan
      [] cal_pc = "do"     -> (calibration_retries + 1 - i) * AttemptSpan
                                 + 2 * (MaxPolls - polls) + 3
      [] cal_pc = "wait"   -> (calibration_retries + 1 - i) * AttemptSpan
                                 + 2 * (MaxPolls - polls) + 4
      [] cal_pc = "after"  -> 1
      [] OTHER             -> 0

\* C16: every call of do_sensor_calibration_and_prepare returns: a state
\* inside the routine leads to a state outside it, each step taken inside
\* the routine lowers the measure CalRank, which is never negative, and a
\* state inside the routine always has a next step.
C16_CalibrationReturns ==
    /\ (pc = "calibrate") ~> (pc # "calibrate")
    /\ [][(pc = "calibrate" /\ pc' = "calibrate") => CalRank' < CalRank]_vars
    /\ [](pc = "calibrate" => (CalRank >= 0 /\ ENABLED CalStep))

\* a re-calibration in the main loop has run and returned, here with failure
C16_Witness ==
    /\ pc = "exit_failure" /\ last_cal = "failure"
    /\ cyc.calibration_needed

\* C17: after a frame that reports calibration_needed, acc_service is inside
\* do_sensor_calibration_and_prepare until that call returns; it stands
\* before the next acc_sensor_measure call only if the call returned
\* success, and has left through the failure exit if it returned failure.
C17_RecalibrateBeforeMeasure ==
    cyc.calibration_needed =>
        /\ pc \in {"calibrate", "measure", "exit_failure"}
        /\ pc = "calibrate" <=> last_cal = "running"
        /\ pc = "measure" <=> last_cal = "success"
        /\ pc = "exit_failure" <=> last_cal = "failure"
        /\ ~cyc.estimated /\ ~cyc.pushed /\ ~cyc.sent

\* the re-calibration succeeded and the next measurement is about to start
C17_Witness ==
    /\ cyc.calibration_needed
    /\ pc = "measure" /\ last_cal = "success" /\ cal_pc = "idle"

\* the three sensor calls of a cycle that precede acc_processing_execute
MainLoopCalls == {"measure", "wait_interrupt", "read"}

\* C18: a step of the main loop in which acc_sensor_measure, the wait for
\* the interrupt or acc_sensor_read fails runs cleanup and ends acc_service
\* with failure; the cycle has estimated no frame, pushed nothing into the
\* buffer and sent nothing, and nothing at all happens after the exit.
C18_SensorFailureExits ==
    /\ [][(pc \in MainLoopCalls /\ pc' = "exit_failure") =>
             /\ cleaned'
             /\ lastHeldValues' = lastHeldValues /\ sent' = sent
             /\ distance' = distance /\ proc_data' = proc_data
             /\ ~cyc'.estimated /\ ~cyc'.pushed /\ ~cyc'.sent]_vars
    /\ [][(pc = "measure" => pc' \in {"wait_interrupt", "exit_failure"})
          /\ (pc = "wait_interrupt" => pc' \in {"read", "exit_failure"})
          /\ (pc = "read" => pc' \in {"process", "exit_failure"})]_vars
    /\ [][pc = "exit_failure" => UNCHANGED vars]_vars

\* a sensor call failed in a cycle that followed at least one transmission
C18_Witness ==
    /\ pc = "exit_failure" /\ cleaned /\ last_cal = "success"
    /\ lastHeldValues # initBuffer /\ sent # SentInit
    /\ ~cyc.estimated /\ ~cyc.pushed /\ ~cyc.sent /\ ~cyc.calibration_needed

\* amplitude[j] - threshold[j] > 0 for the amplitudes a call computed
Over(st, j, cfg) ==
    RGt(RSub(R(st.amplitudes[j + 1]), Threshold(DistanceAt(j, cfg), cfg)), R(0))

\* C19: when a crossing is recorded, its index i is the smallest index of
\* 0 .. num_points - 1 whose amplitude exceeds its threshold; the recorded
\* crossing amplitude, distance and threshold are those of index i; for
\* i >= 1 the below-threshold point is that of index i - 1; and exactly the
\* indices 0 .. i have been examined.
C19_FirstCrossingRecorded ==
    (algo_out.done /\ algo_out.r.scan.crossed)
        => LET st  == algo_out.r.scan
               cfg == algo_in.cfg
               k   == st.first_threshold_index
           IN  /\ k \in 0..(cfg.num_points - 1)
               /\ st.examined = 0..k
               /\ Len(st.amplitudes) = k + 1 /\ Len(st.distances) = k + 1
               /\ \A j \in 0..k :
                     /\ st.distances[j + 1] = DistanceAt(j, cfg)
                     /\ (algo_out.r.divisor # 0 /\ j < Len(algo_in.data)) =>
                           st.amplitudes[j + 1] =
                              (algo_in.data[j + 1][1] * algo_in.data[j + 1][1]
                               + algo_in.data[j + 1][2] * algo_in.data[j + 1][2])
                                 \div algo_out.r.divisor
               /\ Over(st, k, cfg)
               /\ \A j \in 0..(k - 1) : ~Over(st, j, cfg)
               /\ st.first_threshold_y = st.amplitudes[k + 1]
               /\ st.first_threshold_x = DistanceAt(k, cfg)
               /\ st.threshold_crossed = Threshold(DistanceAt(k, cfg), cfg)
               /\ k >= 1 => /\ st.first_below_threshold_x = DistanceAt(k - 1, cfg)
                            /\ st.first_below_threshold_y = st.amplitudes[k]

\* a crossing at index 2 of a frame whose index 3 would cross as well
C19_Witness ==
    /\ algo_out.done /\ algo_out.r.scan.crossed
    /\ algo_in.cfg = BaseConfig /\ algo_in.temp = 20
    /\ algo_out.r.scan.first_threshold_index = 2
    /\ algo_out.r.scan.examined = {0, 1, 2}
    /\ Len(algo_in.data) = 4
    /\ algo_in.data[4] = algo_in.data[3]

\* C20: a first crossing at index 0 gives the no-detection result: nothing
\* is interpolated or corrected, 0 is returned and proc_data is left as it
\* was, as for a frame without any crossing.
C20_CrossingAtZeroIsNoDetection ==
    (algo_out.done /\ algo_out.r.scan.crossed
        /\ algo_out.r.scan.first_threshold_index = 0)
        => /\ algo_out.r.ret = 0
           /\ ~algo_out.r.valid
           /\ algo_out.r.selected = NaN /\ algo_out.r.corrected = NaN
           /\ algo_out.r.proc_data = algo_in.pd

\* the first sample of the frame is already above its threshold
C20_Witness ==
    /\ algo_out.done /\ algo_out.r.scan.crossed
    /\ algo_out.r.scan.first_threshold_index = 0
    /\ algo_out.r.scan.first_threshold_x = DistanceAt(0, algo_in.cfg)
    /\ algo_out.r.scan.first_threshold_x > 0
    /\ algo_out.r.scan.first_below_threshold_x = 0
    /\ algo_out.r.ret = 0

\* C21: a crossing at an index i >= 1 whose amplitude equals that of index
\* i - 1 (y_cross = y_below) is not interpolated: the division by
\* y_cross - y_below is not made and no distance is produced from it.
C21_EqualAmplitudeSkipped ==
    (algo_out.done /\ algo_out.r.scan.crossed
        /\ algo_out.r.scan.first_threshold_index >= 1
        /\ algo_out.r.scan.first_threshold_y = algo_out.r.scan.first_below_threshold_y)
        => /\ ~algo_out.r.valid
           /\ algo_out.r.ret = 0
           /\ algo_out.r.selected = NaN

\* the diagnostic values of the two CAN messages, as acc_service takes them
\* from a proc_data
Diagnostics(pd) ==
    [max_amplitude |-> pd.max_amplitude,
     first_threshold_y |-> pd.first_threshold_y % UINT16,
     divisor |-> pd.divisor % UINT16]
DiagnosticsSent(m) ==
    [max_amplitude |-> m.max_amplitude,
     first_threshold_y |-> m.first_threshold_y,
     divisor |-> m.divisor]

\* C22: a frame for which run_simple_threshold_algo returns the no-detection
\* result leaves proc_data as it was, and proc_data changes in no step other
\* than a valid frame; the diagnostic values sent are always those of
\* proc_data, so for a no-detection frame they repeat those of the most
\* recent valid frame, or are the initial zeros when there was none.
C22_NoDetectionKeepsDiagnostics ==
    /\ [](DiagnosticsSent(sent) = Diagnostics(proc_data))
    /\ [][(pc = "process" /\ pc' = "measure" /\ cyc'.estimated /\ ~cyc'.valid) =>
             /\ proc_data' = proc_data
             /\ DiagnosticsSent(sent') = DiagnosticsSent(sent)
             /\ cyc'.sent]_vars
    /\ [][proc_data' # proc_data => (cyc'.estimated /\ cyc'.valid)]_vars
    /\ [](proc_data = ProcDataInit => DiagnosticsSent(sent) = DiagnosticsSent(SentInit))

\* a no-detection frame sent with the diagnostics of an earlier valid frame
C22_Witness ==
    /\ pc = "measure"
    /\ cyc.estimated /\ ~cyc.valid /\ cyc.sent
    /\ proc_data # ProcDataInit
    /\ sent.max_amplitude = proc_data.max_amplitude /\ sent.max_amplitude > 0
    /\ sent.divisor = proc_data.divisor % UINT16 /\ sent.divisor > 0

\* the smallest and the largest distance of the table
MinDistance == CHOOSE d \in {distances[k] : k \in 1..LOOKUP_TABLE_SIZE} :
                  \A k \in 1..LOOKUP_TABLE_SIZE : d <= distances[k]
MaxDistance == CHOOSE d \in {distances[k] : k \in 1..LOOKUP_TABLE_SIZE} :
                  \A k \in 1..LOOKUP_TABLE_SIZE : d >= distances[k]

\* C23: for every query position getNearestDistance returns a value between
\* the smallest and the largest distance of the table, never the -1 that
\* stands for 'not found'.
C23_NeverNotFound ==
    lk_out.done
        => /\ lk_out.result # NOT_FOUND
           /\ RGe(lk_out.result, R(MinDistance))
           /\ RLe(lk_out.result, R(MaxDistance))
           /\ RGt(lk_out.result, R(0))

\* C24: when the length check passes, every index the scan uses to read the
\* frame or the arrays amplitudes[] and distances[] is below data_length and
\* below the capacity of 400.
C24_IndicesInBounds ==
    (algo_out.done /\ LengthMatches(Len(algo_in.data), algo_in.cfg))
        => \A j \in algo_out.r.scan.examined :
              j < Len(algo_in.data) /\ j < ARRAY_CAPACITY

====
